---- MODULE Spec2Model ----
(***************************************************************************)
(* The simulation engine of the world: createInitialWorldState and         *)
(* tickWorld (src/src/tickWorld.tsx) with the vector algebra               *)
(* (src/src/vectorMath.tsx) and the orbital geometry                       *)
(* (src/src/geometry.tsx) they call.                                       *)
(*                                                                         *)
(* The source computes in floating point; the model computes on a grid:    *)
(*   angles   one unit = 2*pi/200 (TwoPi = 200)                            *)
(*   lengths  one unit = 1/50 of a world unit (the planet's radius 3 is    *)
(*            150)                                                         *)
(*   time     one unit of elapsed world time = 50 world ticks, so that     *)
(*            ticksInADay = 10000 is 200 and the planet turns one angle    *)
(*            unit per time unit                                           *)
(*   clock    Date values count steps of 50 ms; timePerMs = 1/10 turns 10  *)
(*            clock steps into one unit of elapsed world time              *)
(*   mass     one unit = the emission increment 0.1                        *)
(* Vectors of direction (unitVector) are fixed point with One = 1000.      *)
(* Math.random() draws are inputs of the tick, taken from small sets.      *)
(***************************************************************************)
EXTENDS Integers, Sequences, FiniteSets, TLC

VARIABLES
    planet,     \* worldState.planet
    sun,        \* worldState.sun
    heap,       \* every Cloud object ever created, by identity (1..Len(heap))
    clouds,     \* worldState.water.clouds: cloud identities in array order
    rain,       \* worldState.water.rain: Rain objects in array order
    rainMade,   \* number of Rain objects created so far (their identities)
    lastTick,   \* worldState.lastTick
    thrown,     \* the message of the Error tickWorld has thrown, "" for none
    worldStates,\* the results of the createInitialWorldState calls: the
                \* identity of the object at each path of each
    objects,    \* the objects of the module by identity: each one's number of
                \* writes
    timers      \* the setTimeout(requestTick, ...) timers that are armed for
                \* the world state (geometry.tsx, lines 75 and 77)

vars == <<planet, sun, heap, clouds, rain, rainMade, lastTick, thrown,
          worldStates, objects, timers>>

--------------------------------------------------------------------------
\* Bounds of the model.

\* The largest clock value of a run.
MaxClock == 40
\* The target cloud population: 20 in the source (range(20) at line 76 and
\* clouds.length < 20 at line 425), scaled down.
TargetCloudCount == 3
\* The number of emissions that drain a fresh cloud: 5 / 0.1 = 50 in the
\* source (mass: 5 at line 47, cloud.mass -= 0.1 at line 404), scaled down.
MassSteps == 2
\* The largest number of Rain objects created in a run.
MaxRain == 2
\* The largest number of Cloud objects created in a run.
MaxCloudObjects == TargetCloudCount + 2
\* The largest number of createInitialWorldState calls in a run.
MaxWorldStates == 2
\* The largest number of writes to the objects of world states in a run.
MaxWrites == 2
\* The largest number of startRenderLoop runs of the App component in a run.
MaxRenderLoops == 2

--------------------------------------------------------------------------
\* Program constants, in the units of the grid.

TwoPi == 200
One == 1000
ticksInADay == 200
ticksInAYear == 40
sunOrbitEllipse == <<8750, 10000>>
minimumCloudHeight == 50
massIncrement == 1
cloudMass == MassSteps * massIncrement
rainThreshold == 6 * cloudMass
cloudRangeCount == 10
gravity == 12500
maxRainVelocity == 250
timePerMsDen == 10

\* Math.cos on the angle grid, times One.
CosTable ==
  <<
     1000, 1000, 998, 996, 992, 988, 982, 976, 969, 960, 951, 941, 930, 918, 905, 891, 876, 861, 844, 827,
     809, 790, 771, 750, 729, 707, 685, 661, 637, 613, 588, 562, 536, 509, 482, 454, 426, 397, 368, 339,
     309, 279, 249, 218, 187, 156, 125, 94, 63, 31, 0, -31, -63, -94, -125, -156, -187, -218, -249, -279,
     -309, -339, -368, -397, -426, -454, -482, -509, -536, -562, -588, -613, -637, -661, -685, -707, -729, -750, -771, -790,
     -809, -827, -844, -861, -876, -891, -905, -918, -930, -941, -951, -960, -969, -976, -982, -988, -992, -996, -998, -1000,
     -1000, -1000, -998, -996, -992, -988, -982, -976, -969, -960, -951, -941, -930, -918, -905, -891, -876, -861, -844, -827,
     -809, -790, -771, -750, -729, -707, -685, -661, -637, -613, -588, -562, -536, -509, -482, -454, -426, -397, -368, -339,
     -309, -279, -249, -218, -187, -156, -125, -94, -63, -31, 0, 31, 63, 94, 125, 156, 187, 218, 249, 279,
     309, 339, 368, 397, 426, 454, 482, 509, 536, 562, 588, 613, 637, 661, 685, 707, 729, 750, 771, 790,
     809, 827, 844, 861, 876, 891, 905, 918, 930, 941, 951, 960, 969, 976, 982, 988, 992, 996, 998, 1000
  >>

Min(a, b) == IF a < b THEN a ELSE b
Max(a, b) == IF a > b THEN a ELSE b

\* A for loop over the heap: step(x, k) for k = lo .. hi, in this order, from
\* the heap h.  The range is run in two halves and each run reads the heap it
\* starts from (Len(x) = 0 holds of no heap a loop runs on), which keeps the
\* evaluation shallow.
ForEach(step(_, _), h, lo, hi) ==
    LET RECURSIVE run(_, _, _)
        run(x, a, b) ==
            IF a > b \/ Len(x) = 0 THEN x
            ELSE IF a = b THEN step(x, a)
            ELSE run(run(x, a, (a + b) \div 2), (a + b) \div 2 + 1, b)
    IN  run(h, lo, hi)

\* JavaScript's % : the remainder has the sign of the dividend.
JsRem(a, m) == IF a >= 0 THEN a % m ELSE -((-a) % m)

\* JavaScript's / on the grid: the quotient rounded towards zero.
Quot(a, b) == IF a >= 0 THEN a \div b ELSE -((-a) \div b)

cos(t) == CosTable[(t % TwoPi) + 1]
sin(t) == CosTable[((t - 50) % TwoPi) + 1]

--------------------------------------------------------------------------
\* vectorMath.tsx

add(a, b) == <<a[1] + b[1], a[2] + b[2]>>

subtract(a, b) == <<a[1] - b[1], a[2] - b[2]>>

\* Math.sqrt, rounded down to the grid: the digits of the root in base 36,
\* from the highest.  (46340 is the largest root of the 32-bit integers.)
sqrtDigit(n, high, weight) ==
    CHOOSE digit \in 0..35 :
        /\ (high + weight * digit) * (high + weight * digit) <= n
        /\ \/ digit = 35
           \/ high + weight * (digit + 1) > 46340
           \/ n < (high + weight * (digit + 1)) * (high + weight * (digit + 1))

sqrt(n) ==
    LET a == 1296 * sqrtDigit(n, 0, 1296)
        b == a + 36 * sqrtDigit(n, a, 36)
    IN  b + sqrtDigit(n, b, 1)

magnitude(a) ==
    IF Max(Max(a[1], -a[1]), Max(a[2], -a[2])) < 32768
    THEN sqrt(a[1] * a[1] + a[2] * a[2])
    ELSE \* the squares do not fit the integers of the model: on a coarser grid
         64 * sqrt(Quot(a[1], 64) * Quot(a[1], 64) + Quot(a[2], 64) * Quot(a[2], 64))

\* divide by 0 gives NaN or Infinity components in the source; the model
\* has no such value and the operator is not applied to b = 0.
divide(a, b) == <<Quot(a[1], b), Quot(a[2], b)>>

multiply(a, b) == <<a[1] * b, a[2] * b>>

\* The result is a direction in fixed point: its components are times One.
unitVector(a) == divide(multiply(a, One), magnitude(a))

\* multiply(unit, b) for a fixed-point direction.
multiplyUnit(unit, b) == divide(multiply(unit, b), One)

\* clipMagnitude without the clip.
clipMagnitudeNever(a, maxMagnitude) == a

clipMagnitude(a, maxMagnitude) ==
    IF magnitude(a) > maxMagnitude
    THEN multiplyUnit(unitVector(a), maxMagnitude)
    ELSE a

--------------------------------------------------------------------------
\* geometry.tsx.  A Shape is <<radius>> (a number) or <<a, b>> (an
\* EllipseShape).

IsNumber(shape) == Len(shape) = 1

ellipseCalcRotationalPoint(shape, t) ==
    <<Quot(shape[1] * cos(t), One), Quot(shape[2] * sin(t), One)>>

circleCalcRotationalPoint(radius, t) ==
    <<Quot(radius * cos(t), One), Quot(radius * sin(t), One)>>

convertRotationalVelocityToEuclideanVelocity(radius, rotation, rotationalVelocity) ==
    subtract(circleCalcRotationalPoint(radius, rotation + rotationalVelocity),
             circleCalcRotationalPoint(radius, rotation))

--------------------------------------------------------------------------
\* The Math.random() draws of the model.

\* createRandomCloud draws a rotation in [0, 2*pi), a height in [0, 1), a
\* rotationalVelocityCoefficient in [800, 1500) (16 .. 29 time units) and the
\* two silhouette extras in [0, 0.2).
CloudDraws ==
    << [rotation |-> 0,   height |-> 0,  coefficient |-> 20, a |-> 0, b |-> 0],
       [rotation |-> 0,   height |-> 30, coefficient |-> 25, a |-> 8, b |-> 8],
       [rotation |-> 100, height |-> 0,  coefficient |-> 20, a |-> 0, b |-> 0] >>

\* Draws of createRandomCloud for the clustering loops: a small cloud
\* (Math.min(...shape) 0.4) between two large ones (0.56), each large one at
\* a distance from the small one that is below 1.25 times its own silhouette
\* only, and the three on both sides of the border of two sectors (orbit
\* rotation 10 is in the sector of range 0 and not in the one of range 1).
ClusterDraws ==
    << [rotation |-> 10, height |-> 25, coefficient |-> 20, a |-> 8, b |-> 8],
       [rotation |-> 12, height |-> 0,  coefficient |-> 25, a |-> 0, b |-> 0],
       [rotation |-> 14, height |-> 25, coefficient |-> 16, a |-> 8, b |-> 8] >>

\* addCloudJitter draws (Math.random() - 0.5) * 1.0 and
\* (Math.random() - 0.5) * 0.3.
Jitters == << <<0, 0>>, <<24, -7>> >>

\* The clock steps between two tickWorld calls.
Deltas == {0, 10, 30}

--------------------------------------------------------------------------
\* createRandomCloud and createInitialWorldState

\* createRandomCloud with the orbital radius of line 28 without
\* planet.shape * 2 + minimumCloudHeight: a cloud of height 0 is at the
\* planet's centre.
createRandomCloudAtCentre(p, draw) ==
    LET initialRotation == draw.rotation
        orbitalRadius == draw.height
        direction == IF p.rotationalVelocity > 0 THEN 1 ELSE -1
        rotationalVelocityCoefficient == draw.coefficient
    IN  [ shape |-> <<30 + draw.a, 20 + draw.b>>,
          rotationalVelocity |-> 0,
          rotation |-> 0,
          location |-> circleCalcRotationalPoint(orbitalRadius, initialRotation),
          orbit |-> [ rotationalVelocity |->
                          Quot(direction * TwoPi, rotationalVelocityCoefficient),
                      rotation |-> initialRotation,
                      shape |-> <<orbitalRadius>> ],
          mass |-> cloudMass,
          state |-> "floating",
          friends |-> {} ]

\* orbit.target is the planet for every orbit of the world and is not stored.
createRandomCloud(p, draw) ==
    LET initialRotation == draw.rotation
        orbitalRadius == p.shape[1] * 2 + minimumCloudHeight + draw.height
        direction == IF p.rotationalVelocity > 0 THEN 1 ELSE -1
        rotationalVelocityCoefficient == draw.coefficient
    IN  [ shape |-> <<30 + draw.a, 20 + draw.b>>,
          rotationalVelocity |-> 0,
          rotation |-> 0,
          location |-> circleCalcRotationalPoint(orbitalRadius, initialRotation),
          orbit |-> [ rotationalVelocity |->
                          Quot(direction * TwoPi, rotationalVelocityCoefficient),
                      rotation |-> initialRotation,
                      shape |-> <<orbitalRadius>> ],
          mass |-> cloudMass,
          state |-> "floating",
          friends |-> {} ]

\* The objects that exist once the module is loaded: the array of line 16,
\* never written so far.
moduleObjects == <<0>>

\* The identity of the array sunOrbitEllipse in objects.
sunOrbitEllipseObject == 1

\* The world createInitialWorldState builds around a planet of the given
\* spin, for the draws of its clouds.
initialPlanet(spin) ==
    [ location |-> <<0, 0>>,
      rotation |-> 0,
      shape |-> <<150>>,
      rotationalVelocity |-> spin ]

initialSun ==
    [ rotation |-> 0,
      location |-> ellipseCalcRotationalPoint(sunOrbitEllipse, 0),
      shape |-> <<1000>>,
      rotationalVelocity |-> 0,
      orbit |-> [ rotation |-> 0,
                  rotationalVelocity |-> TwoPi \div ticksInAYear,
                  shape |-> sunOrbitEllipse ] ]

\* The world state of lines 80-102 for a planet and the Cloud objects of
\* water.clouds, before its first tick.
worldStateOf(p, cloudObjects) ==
    /\ planet = p
    /\ sun = initialSun
    /\ heap = cloudObjects
    /\ clouds = [i \in DOMAIN cloudObjects |-> i]
    /\ rain = <<>>
    /\ rainMade = 0
    /\ lastTick = 0
    /\ thrown = ""
    /\ worldStates = <<>>
    /\ objects = moduleObjects
    /\ timers = 0

initialWorldState(spin, draws) ==
    worldStateOf(initialPlanet(spin),
                 [i \in 1..TargetCloudCount |->
                    createRandomCloud(initialPlanet(spin), CloudDraws[draws[i]])])

\* The same world with one Shape of the other variant (world.tsx, line 12:
\* every shape is a number or an EllipseShape).  A caller of tickWorld can
\* build it; createInitialWorldState does not.
shapedWorldState(spin, draws, mismatch, k) ==
    LET cloud(i) == createRandomCloud(initialPlanet(spin), CloudDraws[draws[i]])
    IN  worldStateOf(
            IF mismatch = "planet"
            THEN [initialPlanet(spin) EXCEPT !.shape = <<150, 150>>]
            ELSE initialPlanet(spin),
            [i \in 1..TargetCloudCount |->
                IF i # k THEN cloud(i)
                ELSE IF mismatch = "silhouette"
                THEN [cloud(i) EXCEPT !.shape = <<@[2]>>]
                ELSE IF mismatch = "orbit"
                THEN [cloud(i) EXCEPT !.orbit.shape = <<@[1], @[1]>>]
                ELSE cloud(i)])

Init ==
    \E draws \in [1..TargetCloudCount -> 1..Len(CloudDraws)] :
        initialWorldState(TwoPi \div ticksInADay, draws)

--------------------------------------------------------------------------
\* tickCelestialObjects

\* One iteration of the loop for an object without orbit.
tickRotation(celestial, elapsedWorldTime) ==
    [celestial EXCEPT !.rotation =
        JsRem(@ + celestial.rotationalVelocity * elapsedWorldTime, TwoPi)]

\* The iteration with the location computed from the orbit.rotation of before
\* lines 239-241.
tickCelestialObjectBehind(celestial, targetLocation, elapsedWorldTime) ==
    LET spun == tickRotation(celestial, elapsedWorldTime)
        orbitalRotation ==
            JsRem(celestial.orbit.rotation
                    + celestial.orbit.rotationalVelocity * elapsedWorldTime, TwoPi)
        rotationShape == celestial.orbit.shape
        newLocationRelativeToTarget ==
            IF IsNumber(rotationShape)
            THEN circleCalcRotationalPoint(rotationShape[1], celestial.orbit.rotation)
            ELSE ellipseCalcRotationalPoint(rotationShape, celestial.orbit.rotation)
    IN  [spun EXCEPT !.orbit.rotation = orbitalRotation,
                     !.location = add(newLocationRelativeToTarget, targetLocation)]

\* One iteration of the loop for an object with an orbit around a target at
\* targetLocation.
tickCelestialObject(celestial, targetLocation, elapsedWorldTime) ==
    LET spun == tickRotation(celestial, elapsedWorldTime)
        orbitalRotation ==
            JsRem(celestial.orbit.rotation
                    + celestial.orbit.rotationalVelocity * elapsedWorldTime, TwoPi)
        rotationShape == celestial.orbit.shape
        newLocationRelativeToTarget ==
            IF IsNumber(rotationShape)
            THEN circleCalcRotationalPoint(rotationShape[1], orbitalRotation)
            ELSE ellipseCalcRotationalPoint(rotationShape, orbitalRotation)
    IN  [spun EXCEPT !.orbit.rotation = orbitalRotation,
                     !.location = add(newLocationRelativeToTarget, targetLocation)]

\* The loop over the clouds of [sun, planet, ...clouds].  The sun and the
\* clouds read the planet's location, which no iteration writes (the planet
\* has no orbit).
tickCelestialClouds(h, cloudList, targetLocation, elapsedWorldTime) ==
    ForEach(LAMBDA x, i :
                [x EXCEPT ![cloudList[i]] =
                    tickCelestialObject(x[cloudList[i]], targetLocation,
                                        elapsedWorldTime)],
            h, 1, Len(cloudList))

--------------------------------------------------------------------------
\* tickClouds: the sectors

\* The ranges without the cases of lines 306-307 for the first and the last
\* range.
cloudRangesUnwrapped(i) ==
    LET rangeWidth == TwoPi \div cloudRangeCount
        begin == rangeWidth * i
        fuzzAmount == rangeWidth \div 2
        end == begin + rangeWidth
    IN  <<begin - fuzzAmount, end + fuzzAmount>>

\* cloudRanges[i], for i in 0 .. cloudRangeCount - 1: <<fuzzyBegin, fuzzyEnd>>
cloudRanges(i) ==
    LET rangeWidth == TwoPi \div cloudRangeCount
        begin == rangeWidth * i
        fuzzAmount == rangeWidth \div 2
        end == begin + rangeWidth
        fuzzyBegin == IF i = 0 THEN TwoPi - fuzzAmount ELSE begin - fuzzAmount
        fuzzyEnd == IF i = cloudRangeCount - 1 THEN fuzzAmount ELSE end + fuzzAmount
    IN  <<fuzzyBegin, fuzzyEnd>>

\* The condition without the case end < begin of lines 319-320.
inCloudRangeInOrder(rotation, range) ==
    LET begin == range[1]
        end == range[2]
    IN  rotation > begin /\ rotation < end

\* The condition of getCloudGroups under which a cloud of the given
\* orbit.rotation is pushed to the group of the range.
inCloudRange(rotation, range) ==
    LET begin == range[1]
        end == range[2]
    IN  \/ (end < begin /\ (rotation > begin \/ rotation < end))
        \/ (rotation > begin /\ rotation < end)

\* The groups, in the order of cloudRanges; each keeps the order of clouds.
getCloudGroups(h, cloudList) ==
    [g \in 1..cloudRangeCount |->
        SelectSeq(cloudList,
                  LAMBDA c : inCloudRange(h[c].orbit.rotation, cloudRanges(g - 1)))]

--------------------------------------------------------------------------
\* tickClouds: the clustering loops (lines 338-366)

\* Math.min(...shape) of an EllipseShape
minOfShape(shape) == Min(shape[1], shape[2])

\* The proximity test of lines 352-359 for cloud and otherCloud.  The source
\* reads cloud.shape for both cloudShape and otherCloudShape (line 345).
isClose(h, cloud, otherCloud) ==
    LET cloudShape == h[cloud].shape
        otherCloudShape == h[cloud].shape
        distance == magnitude(subtract(h[otherCloud].location, h[cloud].location))
    IN  4 * distance < 4 * minOfShape(cloudShape) + minOfShape(otherCloudShape)

\* The body of the innermost loop with line 362 left out.
clusterPairOneWay(h, cloud, otherCloud) ==
    IF cloud = otherCloud THEN h
    ELSE IF isClose(h, cloud, otherCloud)
    THEN [h EXCEPT
            ![otherCloud].orbit.rotationalVelocity = h[cloud].orbit.rotationalVelocity,
            ![otherCloud].friends = @ \cup {cloud}]
    ELSE h

\* The body of the innermost loop.
clusterPair(h, cloud, otherCloud) ==
    IF cloud = otherCloud THEN h
    ELSE IF isClose(h, cloud, otherCloud)
    THEN [h EXCEPT
            ![otherCloud].orbit.rotationalVelocity = h[cloud].orbit.rotationalVelocity,
            ![otherCloud].friends = @ \cup {cloud},
            ![cloud].friends = @ \cup {otherCloud}]
    ELSE h

\* Lines 341-347: the body throws 'Cloud must have tuple.' for this cloud
\* (cloudShape and otherCloudShape are both cloud.shape).
isShapeless(h, cloud) == IsNumber(h[cloud].shape)

\* The place in the group of the first cloud for which the body throws, 0
\* when there is none.  The loops write no shape.
firstShapeless(h, cloudGroup) ==
    LET shapeless == {j \in DOMAIN cloudGroup : isShapeless(h, cloudGroup[j])}
    IN  IF shapeless = {} THEN 0
        ELSE CHOOSE j \in shapeless : \A k \in shapeless : j <= k

\* The two loops over one group: cloud runs over the group and, for each
\* cloud, otherCloud runs over the group; k counts the iterations of the body.
\* The loops end at the iteration that throws.
clusterGroup(h, cloudGroup) ==
    ForEach(LAMBDA x, k :
                clusterPair(x,
                            cloudGroup[((k - 1) \div Len(cloudGroup)) + 1],
                            cloudGroup[((k - 1) % Len(cloudGroup)) + 1]),
            h, 1,
            IF firstShapeless(h, cloudGroup) = 0
            THEN Len(cloudGroup) * Len(cloudGroup)
            ELSE (firstShapeless(h, cloudGroup) - 1) * Len(cloudGroup))

\* The groups in which the loops throw.
throwingGroups(h, cloudGroups) ==
    {g \in DOMAIN cloudGroups : firstShapeless(h, cloudGroups[g]) # 0}

\* The loop over the groups, which ends in the first group that throws.
clusterGroups(h, cloudGroups) ==
    ForEach(LAMBDA x, g : clusterGroup(x, cloudGroups[g]), h, 1,
            IF throwingGroups(h, cloudGroups) = {}
            THEN Len(cloudGroups)
            ELSE CHOOSE g \in throwingGroups(h, cloudGroups) :
                    \A k \in throwingGroups(h, cloudGroups) : g <= k)

\* The message of the Error the clustering loops throw, "" when they end.
clusterThrown(h, cloudGroups) ==
    IF throwingGroups(h, cloudGroups) = {} THEN "" ELSE "Cloud must have tuple."

--------------------------------------------------------------------------
\* tickClouds: the loop over the clouds (lines 368-429)

RECURSIVE sumOfMasses(_, _)
sumOfMasses(h, friends) ==
    IF friends = {} THEN 0
    ELSE LET f == CHOOSE x \in friends : TRUE
         IN  h[f].mass + sumOfMasses(h, friends \ {f})

RECURSIVE sumOfFriendMasses(_, _)
sumOfFriendMasses(h, friends) ==
    IF friends = {} THEN 0
    ELSE LET f == CHOOSE x \in friends : TRUE
         IN  (h[f].mass + sumOfMasses(h, h[f].friends))
                + sumOfFriendMasses(h, friends \ {f})

\* Lines 369-379 without the inner map of lines 374-376: the friends only.
collectiveMassOfFriends(h, cloud) ==
    h[cloud].mass + sumOfMasses(h, h[cloud].friends)

collectiveMass(h, cloud) ==
    h[cloud].mass + sumOfFriendMasses(h, h[cloud].friends)

\* In percent.  The masses of the source are 5 / cloudMass times the model's.
rainProbabilityAdjustment(mass) ==
    Max(Min((25 * mass * mass) \div (cloudMass * cloudMass), 100), 20)

\* In percent: 0.1 * elapsedWorldTime is 5 per time unit of the model.
probability(mass, elapsedWorldTime) ==
    Min(5 * elapsedWorldTime * rainProbabilityAdjustment(mass), 20)

addCloudJitter(cloud, jitter) == add(cloud.location, jitter)

RECURSIVE setRaining(_, _)
setRaining(h, cloudSet) ==
    IF cloudSet = {} THEN h
    ELSE LET c == CHOOSE x \in cloudSet : TRUE
         IN  setRaining([h EXCEPT ![c].state = "raining"], cloudSet \ {c})

\* Lines 381-386 with an else branch that sets the cloud back to floating.
startRainingWhileAbove(h, cloud, mass) ==
    IF mass > rainThreshold
    THEN setRaining(h, {cloud} \cup h[cloud].friends)
    ELSE [h EXCEPT ![cloud].state = "floating"]

\* Lines 381-383 without the loop over the friends of lines 384-386.
startRainingAlone(h, cloud, mass) ==
    IF mass > rainThreshold
    THEN setRaining(h, {cloud})
    ELSE h

\* Lines 381-386.
startRaining(h, cloud, mass) ==
    IF mass > rainThreshold
    THEN setRaining(h, {cloud} \cup h[cloud].friends)
    ELSE h

\* Line 388.
isRaining(cloud) == cloud.state = "raining"

\* Lines 403-404 without the test of line 388.
isEmittingWhateverState(cloud, mass, elapsedWorldTime, emitDraw) ==
    emitDraw > 0 /\ probability(mass, elapsedWorldTime) > 0

\* Lines 388-404: the cloud emits a Rain object.  emitDraw > 0 stands for a
\* Math.random() of line 403 below every positive probability.
isEmitting(cloud, mass, elapsedWorldTime, emitDraw) ==
    isRaining(cloud) /\ emitDraw > 0 /\ probability(mass, elapsedWorldTime) > 0

\* Line 416 with >= for >.
isRetainedAtZero(cloud) == cloud.mass >= 0

\* Line 416: a raining cloud is pushed to remainingClouds.
isRetained(cloud) == cloud.mass > 0

\* Line 425: createRandomCloud is called; length is clouds.length of the
\* array tickClouds was called with.
isSpawning(length, spawnDraw) == length < TargetCloudCount /\ spawnDraw > 0

\* An emission that leaves the mass of the cloud as it is.
emitMassKept(h, cloud, emits) == h

\* Line 404: the cloud that emits loses the increment of mass.
emitMass(h, cloud, emits) ==
    IF emits THEN [h EXCEPT ![cloud].mass = @ - massIncrement] ELSE h

\* One iteration of the loop.  s holds the heap, remainingClouds,
\* worldState.water.clouds (which is remainingClouds from line 423 of the
\* first iteration on), water.rain, the number of Rain objects made and the
\* message of the Error thrown.  emitDraw > 0 comes with the jitter emitDraw;
\* spawnDraw > 0 stands for a Math.random() of line 425 below 0.05, with the
\* cloud draw spawnDraw.  The iteration throws at line 401 for a raining
\* cloud whose orbit.shape is no number, and in createRandomCloud (line 19)
\* for a planet whose shape is no number.
tickCloud(s, cloud, length, elapsedWorldTime, emitDraw, spawnDraw) ==
    LET mass == collectiveMass(s.heap, cloud)
        h1 == startRaining(s.heap, cloud, mass)
        raining == isRaining(h1[cloud])
        throwsRadius == raining /\ ~IsNumber(h1[cloud].orbit.shape)
        emits == isEmitting(h1[cloud], mass, elapsedWorldTime, emitDraw)
        h2 == emitMass(h1, cloud, emits)
        orbit == h2[cloud].orbit
        rain1 ==
            IF emits
            THEN Append(s.rain,
                   [ id |-> s.rainMade + 1,
                     location |-> addCloudJitter(h2[cloud], Jitters[emitDraw]),
                     velocity |-> convertRotationalVelocityToEuclideanVelocity(
                                     orbit.shape[1], orbit.rotation,
                                     orbit.rotationalVelocity) ])
            ELSE s.rain
        remaining1 ==
            IF raining
            THEN IF isRetained(h2[cloud]) THEN Append(s.remaining, cloud)
                 ELSE s.remaining
            ELSE Append(s.remaining, cloud)
        spawns == isSpawning(length, spawnDraw)
        h3 == IF spawns
              THEN Append(h2, createRandomCloud(planet, CloudDraws[spawnDraw]))
              ELSE h2
        throwsSpawn == spawns /\ ~IsNumber(planet.shape)
        remaining2 == IF spawns THEN Append(remaining1, Len(h2) + 1) ELSE remaining1
        rainMade1 == IF emits THEN s.rainMade + 1 ELSE s.rainMade
    IN  IF throwsRadius
        THEN [s EXCEPT !.heap = h1,
                       !.thrown = "Non-circular cloud orbital radius"]
        ELSE IF throwsSpawn
        THEN [ heap |-> h2,
               remaining |-> remaining1,
               clouds |-> remaining1,
               rain |-> rain1,
               rainMade |-> rainMade1,
               thrown |-> "Clouds can only be created around circular CelestialObjects" ]
        ELSE [ heap |-> h3,
               remaining |-> remaining2,
               clouds |-> remaining2,
               rain |-> rain1,
               rainMade |-> rainMade1,
               thrown |-> "" ]

\* The draws of one iteration: Math.random() of line 403 is read by a raining
\* cloud, Math.random() of line 425 only when clouds.length < 20 holds.
EmitDraws == 0..Len(Jitters)
SpawnDraws(length) ==
    IF length < TargetCloudCount THEN 0..Len(CloudDraws) ELSE {0}

\* The results of one iteration, for every draw, within the bounds of the
\* model.
tickCloudResults(s, cloud, length, elapsedWorldTime) ==
    { r \in { tickCloud(s, cloud, length, elapsedWorldTime, emitDraw, spawnDraw) :
                emitDraw \in EmitDraws, spawnDraw \in SpawnDraws(length) } :
        Len(r.heap) <= MaxCloudObjects /\ r.rainMade <= MaxRain }

\* The loop, from the set of results of the iterations before i.  A result
\* in which an iteration has thrown is a result of the loop.
RECURSIVE tickCloudLoop(_, _, _, _)
tickCloudLoop(results, cloudList, i, elapsedWorldTime) ==
    IF i > Len(cloudList) \/ results = {} THEN results
    ELSE tickCloudLoop(
            UNION { IF s.thrown # "" THEN {s}
                    ELSE tickCloudResults(s, cloudList[i], Len(cloudList),
                                          elapsedWorldTime) :
                      s \in results },
            cloudList, i + 1, elapsedWorldTime)

\* The loop of tickClouds(clouds, worldState, elapsedWorldTime) over the
\* clouds, from the heap the clustering loops leave: the results of the loop
\* for every draw, each with the heap, water.clouds and water.rain after it.
\* With no cloud the loop body never runs and water.clouds stays the array it
\* was (lines 334, 423).
tickCloudsLoop(clustered, cloudList, rainList, made, elapsedWorldTime) ==
    tickCloudLoop(
        { [ heap |-> clustered, remaining |-> <<>>, clouds |-> cloudList,
            rain |-> rainList, rainMade |-> made, thrown |-> "" ] },
        cloudList, 1, elapsedWorldTime)

\* The result of tickClouds when the clustering loops have thrown: the loop
\* over the clouds has not run.
thrownInClustering(clustered, cloudList, rainList, made, message) ==
    [ heap |-> clustered, remaining |-> <<>>, clouds |-> cloudList,
      rain |-> rainList, rainMade |-> made, thrown |-> message ]

--------------------------------------------------------------------------
\* tickRain

\* The body of the loop for one Rain object: its velocity and location after
\* lines 270-287.
tickRainDrop(drop, planetLocation, elapsedWorldTime) ==
    LET centerOfEarthDirection == unitVector(subtract(planetLocation, drop.location))
        changeInVelocity == multiplyUnit(centerOfEarthDirection, gravity * elapsedWorldTime)
        velocity == clipMagnitude(add(drop.velocity, changeInVelocity), maxRainVelocity)
    IN  [drop EXCEPT !.velocity = velocity,
                     !.location = add(drop.location, multiply(velocity, elapsedWorldTime))]

\* The landing test against the planet's centre instead of its surface.
isRainRetainedAboveCentre(drop, p) ==
    magnitude(subtract(drop.location, p.location)) > 0

\* Lines 289-295: the drop is pushed to rainToRetain.  Line 293 compares the
\* distance with planet.shape whatever its variant: an EllipseShape is
\* converted to a number, which gives NaN for an array of two numbers, and
\* distance > NaN is false.
isRainRetained(drop, p) ==
    /\ IsNumber(p.shape)
    /\ magnitude(subtract(drop.location, p.location)) > p.shape[1]

tickRain(rainList, p, elapsedWorldTime) ==
    LET moved == [i \in DOMAIN rainList |->
                    tickRainDrop(rainList[i], p.location, elapsedWorldTime)]
    IN  SelectSeq(moved, LAMBDA drop : isRainRetained(drop, p))

--------------------------------------------------------------------------
\* tickWorld

\* Line 218 reading worldState.lastTick, which line 216 has overwritten,
\* instead of the constant of line 214.
elapsedWorldTimeOfOverwritten(now, last) == Quot(now - now, timePerMsDen)

\* Line 218.
elapsedWorldTimeOf(now, last) == Quot(now - last, timePerMsDen)

\* Lines 220-225, for the elapsedWorldTime of line 218.  tickPlants does
\* nothing: worldState.plants is empty and no operation adds a plant.  When
\* tickClouds throws, tickRain is not called.
tickThings(elapsedWorldTime) ==
    LET sun1 == tickCelestialObject(sun, planet.location, elapsedWorldTime)
        planet1 == tickRotation(planet, elapsedWorldTime)
    IN  \* tickCelestialObjects
        \E heap1 \in {tickCelestialClouds(heap, clouds, planet1.location,
                                          elapsedWorldTime)} :
        \* tickClouds: the groups, the clustering loops, the loop over the clouds
        \E cloudGroups \in {getCloudGroups(heap1, clouds)} :
        \E clustered \in {clusterGroups(heap1, cloudGroups)} :
        \E s \in IF clusterThrown(heap1, cloudGroups) # ""
                 THEN {thrownInClustering(clustered, clouds, rain, rainMade,
                                          clusterThrown(heap1, cloudGroups))}
                 ELSE tickCloudsLoop(clustered, clouds, rain, rainMade,
                                     elapsedWorldTime) :
            /\ sun' = sun1
            /\ planet' = planet1
            /\ heap' = s.heap
            /\ clouds' = s.clouds
            /\ rainMade' = s.rainMade
            \* tickRain
            /\ rain' = IF s.thrown = ""
                       THEN tickRain(s.rain, planet1, elapsedWorldTime)
                       ELSE s.rain
            /\ thrown' = s.thrown
            /\ UNCHANGED <<worldStates, objects, timers>>

\* tickWorld(worldState) when new Date() reads now.
tickWorldAt(now) ==
    /\ lastTick' = now
    /\ tickThings(elapsedWorldTimeOf(now, lastTick))

\* requestTick (geometry.tsx, lines 73-76) asks for the next call after
\* tickWorld has returned: once tickWorld has thrown it is not called again.
isTicking == thrown = ""

TickWorld ==
    \E d \in Deltas :
        /\ isTicking
        /\ lastTick + d <= MaxClock
        /\ tickWorldAt(lastTick + d)

Next == TickWorld

Spec == Init /\ [][Next]_vars

\* createInitialWorldState gives the planet the spin 2 * pi / ticksInADay.
\* tickWorld and createRandomCloud (line 31) are written for a planet of
\* either spin; SignedSpec runs the engine on the worlds of both.
InitSigned ==
    \E spin \in {TwoPi \div ticksInADay, -(TwoPi \div ticksInADay)} :
        \E draws \in [1..TargetCloudCount -> 1..Len(CloudDraws)] :
            initialWorldState(spin, draws)

SignedSpec == InitSigned /\ [][Next]_vars

\* createInitialWorldState with the draws of ClusterDraws: every cloud has
\* the same draw (step 0) or the clouds have one draw after the other
\* (step 1), from any of the draws on.
InitCluster ==
    \E first \in 1..Len(ClusterDraws) :
        \E step \in {0, 1} :
            worldStateOf(
                initialPlanet(TwoPi \div ticksInADay),
                [i \in 1..TargetCloudCount |->
                    createRandomCloud(
                        initialPlanet(TwoPi \div ticksInADay),
                        ClusterDraws[((first + step * (i - 1) - 1) % Len(ClusterDraws)) + 1])])

ClusterSpec == InitCluster /\ [][Next]_vars

\* The distances in orbit.rotation between the first and the second cloud of
\* a world of SectorSpec: every distance of the grid up to the range width.
SectorOffsets == 0..(TwoPi \div cloudRangeCount)

\* createInitialWorldState with the first cloud drawn at any rotation of the
\* grid (line 25: Math.random() * 2 * Math.PI), the second at one of the
\* offsets from it and the others opposite, created when the clock is one
\* step before the end of the run.
InitSectors ==
    \E rotation \in 0..(TwoPi - 1) :
        \E offset \in SectorOffsets :
            /\ planet = initialPlanet(TwoPi \div ticksInADay)
            /\ sun = initialSun
            /\ heap = [i \in 1..TargetCloudCount |->
                         createRandomCloud(
                             initialPlanet(TwoPi \div ticksInADay),
                             [CloudDraws[1] EXCEPT !.rotation =
                                 IF i = 1 THEN rotation
                                 ELSE IF i = 2 THEN (rotation + offset) % TwoPi
                                 ELSE (rotation + TwoPi \div 2) % TwoPi])]
            /\ clouds = [i \in 1..TargetCloudCount |-> i]
            /\ rain = <<>>
            /\ rainMade = 0
            /\ lastTick = MaxClock - 10
            /\ thrown = ""
            /\ worldStates = <<>>
            /\ objects = moduleObjects
            /\ timers = 0

SectorSpec == InitSectors /\ [][Next]_vars

\* The Shape that is of the other variant in a world of ShapesSpec: the
\* silhouette of a cloud, the orbit shape of a cloud or the planet's shape.
ShapeMismatches == {"silhouette", "orbit", "planet"}

InitShapes ==
    \E draws \in [1..TargetCloudCount -> 1..Len(CloudDraws)] :
        \E mismatch \in ShapeMismatches :
            \E k \in 1..TargetCloudCount :
                shapedWorldState(TwoPi \div ticksInADay, draws, mismatch, k)

\* tickWorld on the worlds with a Shape of the other variant.
ShapesSpec == InitShapes /\ [][Next]_vars

\* The clock step of a world loop that is called every 50 seconds.
LiveDeltas == {1000}

\* tickWorld reads the clock only in the difference of line 218: LiveSpec
\* keeps lastTick modulo two clock steps, so that a behaviour can go on for
\* ever within a finite clock.
ClockStepBy(d) == lastTick' = (lastTick + d) % (2 * d)

ClockStep == \E d \in LiveDeltas : ClockStepBy(d)

\* tickWorld, a positive clock step after the call before.
TickWorldOn ==
    \E d \in LiveDeltas :
        /\ isTicking
        /\ ClockStepBy(d)
        /\ tickThings(elapsedWorldTimeOf(lastTick + d, lastTick))

LiveNext == TickWorldOn

\* startWorldLoop asks for the next tick at the end of every tick, and
\* tickWorld has no precondition: tickWorld is called again and again.  The
\* clock steps only in a call of tickWorld, so the fairness is stated on the
\* clock step.
LiveSpec == Init /\ [][LiveNext]_vars /\ WF_lastTick(ClockStep)

\* A world in the course of a run, at a tickWorld call that finds water.rain
\* empty: the clouds, created by one draw, have become friends of each other
\* and are raining; the ones before place first have rained their mass away
\* and were removed from water.clouds (they stay in the friends sets of the
\* others), the ones from place first on have one increment of mass left.
drainedWorldState(draw, first) ==
    /\ planet = initialPlanet(TwoPi \div ticksInADay)
    /\ sun = initialSun
    /\ heap = [i \in 1..TargetCloudCount |->
                 [createRandomCloud(initialPlanet(TwoPi \div ticksInADay),
                                    CloudDraws[draw])
                    EXCEPT !.state = "raining",
                           !.mass = IF i < first THEN 0 ELSE massIncrement,
                           !.friends = (1..TargetCloudCount) \ {i}]]
    /\ clouds = [i \in 1..(TargetCloudCount - first + 1) |-> first + i - 1]
    /\ rain = <<>>
    /\ rainMade = 0
    /\ lastTick = 0
    /\ thrown = ""
    /\ worldStates = <<>>
    /\ objects = moduleObjects
    /\ timers = 0

InitDrain ==
    \E first \in 1..TargetCloudCount :
        drainedWorldState(1, first)

\* The world loop, called again and again, on a world whose clouds are about
\* to rain away.
DrainSpec == InitDrain /\ [][LiveNext]_vars /\ WF_lastTick(ClockStep)

--------------------------------------------------------------------------
\* createInitialWorldState: the objects of a world state

\* The objects one call of createInitialWorldState creates, each named by its
\* path from the world state, in the order of their creation: the planet
\* (line 66) and its location, the clouds array (line 76), the world state
\* (line 80) with its Date, its plants array, its sun, the sun's location and
\* orbit, its water and the rain array; and for every cloud
\* (createRandomCloud, lines 35-50) the cloud, its shape, its location, its
\* orbit and its friends.
WorldPaths ==
    << "planet", "planet.location", "water.clouds", "worldState", "lastTick",
       "plants", "sun", "sun.location", "sun.orbit", "water", "water.rain" >>

CloudPaths ==
    << "cloud", "cloud.shape", "cloud.location", "cloud.orbit", "cloud.friends" >>

FreshPaths ==
    [k \in 1..(Len(WorldPaths) + TargetCloudCount * Len(CloudPaths)) |->
        IF k <= Len(WorldPaths)
        THEN <<WorldPaths[k], 0>>
        ELSE <<CloudPaths[((k - Len(WorldPaths) - 1) % Len(CloudPaths)) + 1],
               ((k - Len(WorldPaths) - 1) \div Len(CloudPaths)) + 1>>]

\* Line 94: the shape of the sun's orbit is the array of line 16.
SunOrbitShapePath == <<"sun.orbit.shape", 0>>

Paths == {FreshPaths[k] : k \in DOMAIN FreshPaths} \cup {SunOrbitShapePath}

\* The world state createInitialWorldState returns when the objects of store
\* exist: the identity of the object at each path.
createInitialWorldState(store) ==
    [p \in Paths |->
        IF p = SunOrbitShapePath
        THEN sunOrbitEllipseObject
        ELSE Len(store) + (CHOOSE k \in DOMAIN FreshPaths : FreshPaths[k] = p)]

\* The objects reachable from a world state.
reachable(worldState) == {worldState[p] : p \in Paths}

\* The number of writes so far.
writes(store) ==
    Cardinality({ow \in (DOMAIN store) \X (1..MaxWrites) : ow[2] <= store[ow[1]]})

\* A call of createInitialWorldState.
CreateInitialWorldState ==
    /\ Len(worldStates) < MaxWorldStates
    /\ worldStates' = Append(worldStates, createInitialWorldState(objects))
    /\ objects' = objects \o [k \in DOMAIN FreshPaths |-> 0]
    /\ UNCHANGED <<planet, sun, heap, clouds, rain, rainMade, lastTick, thrown,
                   timers>>

\* A write to an object that is reachable from a world state, by the holder
\* of the world state.
WriteObject ==
    \E w \in DOMAIN worldStates :
        \E o \in reachable(worldStates[w]) :
            /\ writes(objects) < MaxWrites
            /\ objects' = [objects EXCEPT ![o] = @ + 1]
            /\ UNCHANGED <<planet, sun, heap, clouds, rain, rainMade, lastTick,
                           thrown, worldStates, timers>>

ObjectsNext == CreateInitialWorldState \/ WriteObject

\* The module with its callers: world states are created and their holders
\* write to them.  No world state is ticked.
InitObjects == initialWorldState(TwoPi \div ticksInADay, [i \in 1..TargetCloudCount |-> 1])

ObjectsSpec == InitObjects /\ [][ObjectsNext]_vars

--------------------------------------------------------------------------
\* geometry.tsx: the App component and its world loop

\* The world state of the App component (lines 86-91), before the effect of
\* line 114 has run: no timer is armed.
InitLoop == initialWorldState(TwoPi \div ticksInADay, [i \in 1..TargetCloudCount |-> 1])

\* startRenderLoop (lines 92-108), run by the effect of line 114 after the
\* first render and whenever canvasRef or windowSize has changed, with the
\* canvas and the world state there.  It cancels the animation frame (line
\* 95) and calls startWorldLoop, which draws, requests an animation frame and
\* arms a timer for requestTick (line 77).  No line clears a timer.  The
\* canvas and the animation frames are not part of the state: drawWorld only
\* reads the world state.
StartRenderLoop ==
    /\ timers < MaxRenderLoops
    /\ timers' = timers + 1
    /\ UNCHANGED <<planet, sun, heap, clouds, rain, rainMade, lastTick, thrown,
                   worldStates, objects>>

\* requestTick (lines 73-76), when one of the armed timers fires: tickWorld,
\* and the timer is armed again.
RequestTick ==
    /\ timers > 0
    /\ TickWorld

LoopNext == StartRenderLoop \/ RequestTick

LoopSpec == InitLoop /\ [][LoopNext]_vars

--------------------------------------------------------------------------
\* Properties

Range(seq) == {seq[i] : i \in DOMAIN seq}

\* The Cloud objects created so far.
Clouds == DOMAIN heap

InTurn(rotation) == 0 <= rotation /\ rotation < TwoPi

\* C1: after every tickWorld the rotation of the sun, of the planet and of
\* every cloud, and the orbit.rotation of the sun and of every cloud, lie in
\* [0, 2*pi), whatever the sign of the rotational velocity.
\* (It is an invariant of Spec, whose velocities are all positive, and not of
\* SignedSpec.)
C1_RotationsWrapped ==
    /\ InTurn(planet.rotation)
    /\ InTurn(sun.rotation)
    /\ InTurn(sun.orbit.rotation)
    /\ \A c \in Range(clouds) :
          InTurn(heap[c].rotation) /\ InTurn(heap[c].orbit.rotation)

\* C2: a tickWorld call whose elapsed time is 0 changes no object's location,
\* no cloud's mass and not the number of clouds in water.clouds.
C2_ZeroDeltaTickChangesNothing ==
    [][lastTick' = lastTick =>
          /\ planet'.location = planet.location
          /\ sun'.location = sun.location
          /\ \A c \in Clouds :
                /\ heap'[c].location = heap[c].location
                /\ heap'[c].mass = heap[c].mass
          /\ Len(clouds') = Len(clouds)]_vars

\* C3: the number of clouds in water.clouds never exceeds the target size.
C3_PopulationAtMostTarget == Len(clouds) <= TargetCloudCount

\* C4: one tickWorld call spawns at most one cloud.
C4_AtMostOneSpawnPerTick == [][Len(heap') <= Len(heap) + 1]_vars

\* Two clouds are visited together by the clustering loops: some group has
\* both.
sharesGroup(h, a, b) ==
    \E g \in 1..cloudRangeCount :
        /\ inCloudRange(h[a].orbit.rotation, cloudRanges(g - 1))
        /\ inCloudRange(h[b].orbit.rotation, cloudRanges(g - 1))

\* The pair passes the proximity test of the clustering pass run on the
\* clouds of cloudList, as cloud and otherCloud or the other way round.
passesProximity(h, cloudList, a, b) ==
    /\ a # b
    /\ a \in Range(cloudList)
    /\ b \in Range(cloudList)
    /\ sharesGroup(h, a, b)
    /\ (isClose(h, a, b) \/ isClose(h, b, a))

\* C5: at the end of a tick the friends of a cloud are exactly the clouds
\* that passed the proximity test against it in the clustering pass of that
\* tick (the pass reads the locations, rotations and silhouettes the clouds
\* still have at the end of the tick).
C5_FriendsRebuiltEveryTick ==
    [][\A a \in Range(clouds) :
          heap'[a].friends =
              {b \in Range(clouds) : passesProximity(heap', clouds, a, b)}]_vars

\* C6: friendship is symmetric and no cloud is its own friend.
C6_FriendsSymmetric ==
    \A a \in Clouds :
        /\ a \notin heap[a].friends
        /\ \A b \in Clouds : (a \in heap[b].friends) <=> (b \in heap[a].friends)

\* C6, witness: two clouds are friends of each other although the proximity
\* test passes for one of them as cloud only, and a cloud has two friends.
C6_Witness ==
    /\ \E a, b \in Range(clouds) :
          /\ isClose(heap, a, b) /\ ~isClose(heap, b, a)
          /\ a \in heap[b].friends /\ b \in heap[a].friends
    /\ \E a \in Clouds : Cardinality(heap[a].friends) >= 2

\* C7: a cloud that is raining is raining after every step.
C7_RainingIsPermanent ==
    [][\A c \in Clouds : isRaining(heap[c]) => isRaining(heap'[c])]_vars

\* C7, witness: a cloud of water.clouds is raining although its collective
\* mass is no longer above the threshold.
C7_Witness ==
    \E c \in Range(clouds) :
        /\ isRaining(heap[c])
        /\ collectiveMass(heap, c) <= rainThreshold
        /\ heap[c].mass < cloudMass

\* C8: across a step, the mass of a cloud that is floating after it is
\* unchanged, no cloud's mass increases, and no cloud's mass decreases by
\* more than the increment.
C8_MassDirection ==
    [][\A c \in Clouds :
          /\ ~isRaining(heap'[c]) => heap'[c].mass = heap[c].mass
          /\ heap'[c].mass <= heap[c].mass
          /\ heap[c].mass - heap'[c].mass <= massIncrement]_vars

\* C8, witness: a raining cloud has lost mass while a floating cloud is around.
C8_Witness ==
    /\ \E c \in Clouds : isRaining(heap[c]) /\ heap[c].mass < cloudMass
    /\ \E c \in Range(clouds) : ~isRaining(heap[c]) /\ heap[c].mass = cloudMass

\* C9: after a tick water.clouds holds, each once, the clouds it held before
\* that are floating or have a mass above 0, and the clouds made in the tick;
\* none of its clouds has a mass of 0 or less.
C9_RetainedClouds ==
    [][/\ \A i, j \in DOMAIN clouds' : clouds'[i] = clouds'[j] => i = j
       /\ Range(clouds') =
             {c \in Range(clouds) : ~isRaining(heap'[c]) \/ heap'[c].mass > 0}
                \cup (DOMAIN heap' \ DOMAIN heap)
       /\ \A c \in Range(clouds') : heap'[c].mass > 0]_vars

\* C9, witness: a drained cloud has left water.clouds, a raining cloud and a
\* spawned cloud are in it.
C9_Witness ==
    /\ \E c \in Clouds : c \notin Range(clouds) /\ heap[c].mass <= 0
    /\ \E c \in Range(clouds) : isRaining(heap[c])
    /\ \E c \in Range(clouds) : c > TargetCloudCount

\* The Rain object of the given id is in water.rain.
isFalling(id) == \E i \in DOMAIN rain : rain[i].id = id

\* C10: every Rain object in water.rain is removed from it later on, when
\* tickWorld keeps being called with positive elapsed times.
C10_RainEventuallyRemoved ==
    \A id \in 1..MaxRain : isFalling(id) ~> ~isFalling(id)

\* The distance of a Rain object from the centre of the planet.
distanceFromPlanet(drop, p) == magnitude(subtract(drop.location, p.location))

\* C11: at the end of every tick every Rain object of water.rain is farther
\* from the planet's centre than the planet's radius; a Rain object that was
\* in water.rain before the tick stays in it exactly when its distance after
\* the integration step is above the radius.
C11_RainAbovePlanet ==
    [][/\ \A i \in DOMAIN rain' :
             distanceFromPlanet(rain'[i], planet') > planet'.shape[1]
       /\ \A i \in DOMAIN rain :
             LET moved == tickRainDrop(rain[i], planet'.location,
                                       Quot(lastTick' - lastTick, timePerMsDen))
             IN  /\ (\E j \in DOMAIN rain' : rain'[j].id = rain[i].id) <=>
                        distanceFromPlanet(moved, planet') > planet'.shape[1]
                 /\ distanceFromPlanet(moved, planet') > planet'.shape[1]
                        => moved \in Range(rain')]_vars

\* C11, witness: a Rain object has landed and left water.rain while another
\* one, which has moved, is still in it.
C11_Witness ==
    /\ \E id \in 1..rainMade : ~isFalling(id)
    /\ \E i \in DOMAIN rain :
          distanceFromPlanet(rain[i], planet) < planet.shape[1] + minimumCloudHeight

\* C12: after every tick every Rain object of water.rain, the ones emitted in
\* that tick included, has a speed of at most maxRainVelocity.
C12_RainSpeedClipped ==
    \A i \in DOMAIN rain : magnitude(rain[i].velocity) <= maxRainVelocity

\* C12, witness: a Rain object of water.rain has been through tickRain, where
\* gravity took it beyond the maximum: its speed is the unit of the grid
\* below the maximum or at it.
C12_Witness ==
    \E i \in DOMAIN rain : magnitude(rain[i].velocity) >= maxRainVelocity - 1

\* C13: two world states that two calls of createInitialWorldState return
\* share no object, and a write to an object reachable from one of them
\* changes no object reachable from the other.
C13_WorldStatesShareNothing ==
    [][\A w, u \in DOMAIN worldStates' :
          w # u =>
            /\ reachable(worldStates'[w]) \cap reachable(worldStates'[u]) = {}
            /\ (\E o \in reachable(worldStates'[w]) :
                    o \in DOMAIN objects /\ objects'[o] # objects[o])
                  => \A o \in reachable(worldStates'[u]) :
                        o \in DOMAIN objects => objects'[o] = objects[o]]_vars

\* The elapsed world time of a step from the lastTick it reads to the
\* lastTick it stores, and what the planet's and the sun's turns show of it.
ticksBy(elapsedWorldTime) ==
    /\ planet'.rotation =
          JsRem(planet.rotation + planet.rotationalVelocity * elapsedWorldTime, TwoPi)
    /\ sun'.orbit.rotation =
          JsRem(sun.orbit.rotation + sun.orbit.rotationalVelocity * elapsedWorldTime,
                TwoPi)

C15_ShapeMismatchThrows ==
    [][(\/ \E c \in Range(clouds) : IsNumber(heap[c].shape)
        \/ \E c \in Range(clouds) :
              isRaining(heap[c]) /\ ~IsNumber(heap[c].orbit.shape)
        \/ /\ ~IsNumber(planet.shape)
           /\ (rain # <<>> \/ rainMade' > rainMade))
          => thrown' # ""]_vars

\* The mass of the cloud other as the iteration of the loop over the clouds
\* for cloud reads it in a step: the iterations for the clouds before cloud
\* in water.clouds have run, the others have not.
massReadBy(cloud, other) ==
    IF \E i, j \in DOMAIN clouds : i < j /\ clouds[i] = other /\ clouds[j] = cloud
    THEN heap'[other].mass
    ELSE heap[other].mass

\* The collective mass of the iteration for cloud in a step: the number of
\* mass units of the cloud, of its friends and of the friends of its friends
\* (the clustering loops of the step have run: the friends are those of the
\* end of the step).
collectiveMassIn(cloud) ==
    heap[cloud].mass
      + Cardinality({fu \in Clouds \X (1..cloudMass) :
                        /\ fu[1] \in heap'[cloud].friends
                        /\ fu[2] <= massReadBy(cloud, fu[1])})
      + Cardinality({fgu \in Clouds \X Clouds \X (1..cloudMass) :
                        /\ fgu[1] \in heap'[cloud].friends
                        /\ fgu[2] \in heap'[fgu[1]].friends
                        /\ fgu[3] <= massReadBy(cloud, fgu[2])})

\* C16: a cloud of water.clouds whose collective mass in a tick is above the
\* rain threshold is raining at the end of the tick, and so is each of its
\* friends; a cloud whose collective mass is not above the threshold, and none
\* of whose friends' is, has the state it had before the tick.
C16_RainingAboveThreshold ==
    [][\A c \in Range(clouds) :
          /\ collectiveMassIn(c) > rainThreshold
                => /\ isRaining(heap'[c])
                   /\ \A f \in heap'[c].friends : isRaining(heap'[f])
          /\ (/\ collectiveMassIn(c) <= rainThreshold
              /\ \A f \in heap'[c].friends \cap Range(clouds) :
                    collectiveMassIn(f) <= rainThreshold)
                => heap'[c].state = heap[c].state]_vars

\* C16, witness: a cloud of water.clouds is raining with its friends, which
\* have lost mass, while a cloud that has friends is still floating.
C16_Witness ==
    /\ \E c \in Range(clouds) :
          /\ isRaining(heap[c])
          /\ heap[c].friends # {}
          /\ \A f \in heap[c].friends : isRaining(heap[f])
          /\ \E f \in heap[c].friends : heap[f].mass < cloudMass
    /\ \E c \in Range(clouds) : ~isRaining(heap[c]) /\ heap[c].friends # {}

\* The two clouds were no friends before the step and are friends of each
\* other after it: the clustering pass of the step has made them friends.
becomeFriends(a, b) ==
    /\ a \notin heap[b].friends /\ b \notin heap[a].friends
    /\ a \in heap'[b].friends /\ b \in heap'[a].friends

\* C17: two distinct clouds of one sector that were no friends become friends
\* of each other in a pass exactly when their distance is below
\* min(A.shape) + min(B.shape) / 4, the second term from the other cloud's
\* silhouette (the pass reads the locations of the end of the tick).
C17_FriendsByOwnSilhouettes ==
    [][LET isCloseToOther(h, cloud, otherCloud) ==
               4 * magnitude(subtract(h[otherCloud].location, h[cloud].location))
                   < 4 * minOfShape(h[cloud].shape) + minOfShape(h[otherCloud].shape)
       IN  \A a, b \in Range(clouds) :
              (/\ a # b
               /\ sharesGroup(heap', a, b)
               /\ a \notin heap[b].friends /\ b \notin heap[a].friends)
                => (becomeFriends(a, b) <=>
                      (isCloseToOther(heap', a, b) \/ isCloseToOther(heap', b, a)))]_vars

\* The place of a cloud in water.clouds, the order of the clustering loops.
placeOf(cloud) == CHOOSE i \in DOMAIN clouds : clouds[i] = cloud

\* C18: when a pass makes A and B friends and A is before B in the order of
\* iteration, B's orbit.rotationalVelocity after the pass is the one A had
\* before it and A's is unchanged, whatever other clouds are around.
C18_EarlierVelocityWins ==
    [][\A a, b \in Range(clouds) :
          (placeOf(a) < placeOf(b) /\ becomeFriends(a, b))
            => /\ heap'[b].orbit.rotationalVelocity = heap[a].orbit.rotationalVelocity
               /\ heap'[a].orbit.rotationalVelocity = heap[a].orbit.rotationalVelocity]_vars

\* C19: at the end of a clustering pass two clouds that the pass has made
\* friends have the same orbit.rotationalVelocity.
C19_FriendsShareVelocity ==
    [][\A a, b \in Range(clouds) :
          becomeFriends(a, b)
            => heap'[a].orbit.rotationalVelocity = heap'[b].orbit.rotationalVelocity]_vars

\* C20: the collective mass of a cloud is its mass plus, for each of its
\* friends, the friend's mass plus the masses of the friend's friends (two
\* levels, counted in units of mass; the clouds beyond are not read, and a
\* cloud without friends has its own mass).
C20_CollectiveMassTwoLevels ==
    \A c \in Range(clouds) :
        /\ collectiveMass(heap, c) =
              heap[c].mass
                + Cardinality({fu \in Clouds \X (1..cloudMass) :
                                  /\ fu[1] \in heap[c].friends
                                  /\ fu[2] <= heap[fu[1]].mass})
                + Cardinality({fgu \in Clouds \X Clouds \X (1..cloudMass) :
                                  /\ fgu[1] \in heap[c].friends
                                  /\ fgu[2] \in heap[fgu[1]].friends
                                  /\ fgu[3] <= heap[fgu[2]].mass})
        /\ heap[c].friends = {} => collectiveMass(heap, c) = heap[c].mass

\* C20, witness: a cloud has a friend whose friends include a cloud with mass
\* that is not a friend of the cloud itself, and its collective mass is above
\* the sum of the masses of the three.
C20_Witness ==
    \E c \in Range(clouds) :
        \E f \in heap[c].friends :
            \E g \in heap[f].friends :
                /\ g # c /\ g \notin heap[c].friends /\ heap[g].mass > 0
                /\ heap[c].friends = {f}
                /\ heap[f].friends = {c, g}
                /\ collectiveMass(heap, c) > heap[c].mass + heap[f].mass + heap[g].mass

\* The point of an orbit at its rotation, by the formula of the variant of
\* its shape.
orbitPoint(orbit) ==
    IF IsNumber(orbit.shape)
    THEN circleCalcRotationalPoint(orbit.shape[1], orbit.rotation)
    ELSE ellipseCalcRotationalPoint(orbit.shape, orbit.rotation)

\* C21: after a tick the sun and every cloud the tick has moved are at the
\* point of their orbit at its wrapped rotation plus the location the planet,
\* their target, has after the tick; the planet keeps its location.
C21_LocationOnOrbit ==
    [][/\ sun'.location = add(orbitPoint(sun'.orbit), planet'.location)
       /\ \A c \in Range(clouds) :
             heap'[c].location = add(orbitPoint(heap'[c].orbit), planet'.location)
       /\ planet'.location = planet.location]_vars

\* C21, witness: the sun and a cloud have moved along their orbits, the sun
\* on an ellipse and the cloud on a circle.
C21_Witness ==
    /\ sun.orbit.rotation > 0
    /\ sun.location # ellipseCalcRotationalPoint(sunOrbitEllipse, 0)
    /\ \E c \in Range(clouds) :
          /\ heap[c].orbit.rotation \notin {CloudDraws[d].rotation : d \in DOMAIN CloudDraws}
          /\ IsNumber(heap[c].orbit.shape)

\* The sectors of getCloudGroups a cloud is placed in, counted from 0.
sectorsOf(cloud) ==
    {i \in 0..(cloudRangeCount - 1) :
        cloud \in Range(getCloudGroups(heap, clouds)[i + 1])}

\* C22: getCloudGroups produces exactly 10 sectors; a cloud with orbit.rotation
\* in [0, 2 pi) is placed in sector i exactly when its rotation is inside the
\* open interval from (i - 0.5) w to (i + 1.5) w, w = 2 pi / 10, taken around
\* the circle, and it is placed in one or two sectors.
C22_SectorsCoverRotation ==
    LET w == TwoPi \div 10
        inside(rotation, i) ==
            \E turn \in {-1, 0, 1} :
                /\ 2 * (rotation + turn * TwoPi) > (2 * i - 1) * w
                /\ 2 * (rotation + turn * TwoPi) < (2 * i + 3) * w
    IN  /\ Len(getCloudGroups(heap, clouds)) = 10
        /\ \A c \in Range(clouds) :
              heap[c].orbit.rotation \in 0..(TwoPi - 1)
                => /\ sectorsOf(c) = {i \in 0..9 : inside(heap[c].orbit.rotation, i)}
                   /\ Cardinality(sectorsOf(c)) \in {1, 2}

\* C22, witness: after a tick one cloud is on the edge between two sectors and
\* in one sector only, and another is in the last and the first sector.
C22_Witness ==
    /\ lastTick = MaxClock
    /\ \E c \in Range(clouds) :
          /\ heap[c].orbit.rotation = TwoPi - TwoPi \div 20
          /\ sectorsOf(c) = {9}
    /\ \E c \in Range(clouds) :
          /\ heap[c].orbit.rotation < TwoPi \div 20
          /\ sectorsOf(c) = {0, 9}

\* The clouds whose mass has decreased in the step.
lighter == {c \in Clouds : heap'[c].mass < heap[c].mass}

\* C23: in a tick the number of Rain objects made equals the number of clouds
\* whose mass has decreased; such a cloud has lost exactly the increment, is
\* of water.clouds before the tick and is raining, so a floating cloud has
\* emitted nothing and a raining cloud at most one particle; the particles
\* that are new in water.rain are not more than these clouds.
C23_OneParticlePerIncrement ==
    [][/\ rainMade' - rainMade = Cardinality(lighter)
       /\ \A c \in lighter :
             /\ heap'[c].mass = heap[c].mass - massIncrement
             /\ c \in Range(clouds)
             /\ isRaining(heap'[c])
       /\ \A c \in Clouds : ~isRaining(heap'[c]) => heap'[c].mass = heap[c].mass
       /\ Cardinality({j \in DOMAIN rain' : rain'[j].id > rainMade})
             <= Cardinality(lighter)]_vars

\* C23, witness: one tick has made two particles, one each from two clouds,
\* while another cloud of water.clouds has kept its mass.
C23_Witness ==
    /\ lastTick = 10
    /\ rainMade = 2
    /\ Cardinality({c \in Range(clouds) : heap[c].mass = cloudMass - massIncrement}) = 2
    /\ \E c \in Range(clouds) : heap[c].mass = cloudMass

\* The arrays water.rain that tickRain is called with (line 225) by a tick of
\* the elapsed world time from this state: the Rain objects retained by the
\* tick before and the ones pushed by tickClouds in this tick, for every
\* draw.  tickRain is not called when tickClouds has thrown.
rainOfCloudPass(elapsedWorldTime) ==
    LET planet1 == tickRotation(planet, elapsedWorldTime)
        heap1 == tickCelestialClouds(heap, clouds, planet1.location, elapsedWorldTime)
        cloudGroups == getCloudGroups(heap1, clouds)
    IN  IF clusterThrown(heap1, cloudGroups) # ""
        THEN {}
        ELSE { s.rain : s \in { r \in tickCloudsLoop(clusterGroups(heap1, cloudGroups),
                                                      clouds, rain, rainMade,
                                                      elapsedWorldTime) :
                                  r.thrown = "" } }

\* C24: whenever tickRain calls unitVector on planet.location - rain.location,
\* the vector has a magnitude that is not 0: no Rain object that a tick hands
\* to tickRain is at the planet's centre.
C24_RainNeverAtCentre ==
    \A d \in Deltas :
        lastTick + d <= MaxClock
          => \A rainList \in rainOfCloudPass(elapsedWorldTimeOf(lastTick + d, lastTick)) :
                \A i \in DOMAIN rainList :
                    magnitude(subtract(planet.location, rainList[i].location)) # 0

\* C24, witness: a tick from this state hands tickRain a Rain object retained
\* by the tick before, which has fallen since, and one pushed in this tick.
C24_Witness ==
    /\ Len(rain) = 1
    /\ rain[1].velocity # <<0, 0>>
    /\ \E d \in Deltas :
          /\ lastTick + d <= MaxClock
          /\ \E rainList \in rainOfCloudPass(elapsedWorldTimeOf(lastTick + d, lastTick)) :
                Len(rainList) = 2

\* C25: when water.clouds holds no cloud and tickWorld keeps being called, a
\* cloud is added to water.clouds later on (the claim for the empty
\* population; with no cloud no iteration of the loop of tickClouds draws
\* Math.random() at line 425, whatever the draws would be).
C25_EmptyPopulationRespawns ==
    (Len(clouds) = 0) ~> (Len(clouds) > 0)

\* C26: every friend of a cloud of water.clouds is a cloud of water.clouds: a
\* removed cloud is in no friends set of a surviving cloud (and so its mass is
\* in no collective mass).
C26_FriendsAreInWaterClouds ==
    \A c \in Range(clouds) : heap[c].friends \subseteq Range(clouds)

\* C27: the collective mass of a cloud counts the mass of each cloud at most
\* once: it is the sum, in units of mass, over the set made of the cloud, its
\* friends and the friends of its friends.
C27_CollectiveMassCountsOnce ==
    \A c \in Range(clouds) :
        collectiveMass(heap, c) =
            Cardinality({gu \in Clouds \X (1..cloudMass) :
                            /\ \/ gu[1] = c
                               \/ gu[1] \in heap[c].friends
                               \/ \E f \in heap[c].friends : gu[1] \in heap[f].friends
                            /\ gu[2] <= heap[gu[1]].mass})

\* The orbit.rotation values of the two clouds, both in [0, 2 pi), differ
\* around the circle by less than one sector width.
withinSectorWidth(h, a, b) ==
    LET w == TwoPi \div cloudRangeCount
        difference == (h[a].orbit.rotation - h[b].orbit.rotation) % TwoPi
    IN  /\ h[a].orbit.rotation \in 0..(TwoPi - 1)
        /\ h[b].orbit.rotation \in 0..(TwoPi - 1)
        /\ (difference < w \/ TwoPi - difference < w)

\* C28: two clouds of water.clouds whose orbit.rotation values in a tick differ
\* around the circle by less than one sector width are together in a sector,
\* and the clustering pass compares them: when the proximity test passes for
\* the one against the other, the other is a friend of the one after the tick.
C28_NoCandidatePairLost ==
    [][\A a, b \in Range(clouds) :
          (a # b /\ withinSectorWidth(heap', a, b))
            => /\ sharesGroup(heap', a, b)
               /\ isClose(heap', a, b) => b \in heap'[a].friends]_vars

\* C28, witness: after a tick two clouds on the two sides of the rotation 0
\* are friends, and so are two clouds on the two sides of the edge of a
\* sector.
C28_Witness ==
    /\ lastTick = MaxClock
    /\ \E a, b \in Range(clouds) :
          /\ withinSectorWidth(heap, a, b)
          /\ heap[a].orbit.rotation > TwoPi \div 2
          /\ heap[b].orbit.rotation < TwoPi \div 2
          /\ b \in heap[a].friends
    /\ \E a, b \in Range(clouds) :
          /\ withinSectorWidth(heap, a, b)
          /\ heap[a].orbit.rotation < cloudRanges(1)[2]
          /\ heap[b].orbit.rotation > cloudRanges(1)[2]
          /\ b \in heap[a].friends

\* C29: at most one chain of requestTick timers is armed for the world state,
\* also after startRenderLoop has run again.
C29_OneTickChain == timers <= 1

====
